---- MODULE Spec2Model ----
(***************************************************************************)
(* A model of Autocomplete_app.py: the prefix tree (Trie), its bounded     *)
(* prefix search, the path / subtree marking, and the leaf-count layout    *)
(* of TrieVisualizer.                                                      *)
(*                                                                         *)
(* Strings are sequences of character codes (ASCII), so that lower() and   *)
(* the (length, lexicographic) sort key are computed, not assumed.         *)
(* A node is identified by the sequence of dictionary keys that leads to   *)
(* it from the root: node.children[c] of node n is the node Append(n, c).  *)
(* The children field keeps the keys of the dict in insertion order, which *)
(* is the order in which .values() iterates.                               *)
(***************************************************************************)
EXTENDS Integers, Sequences, FiniteSets, TLC

VARIABLES
    trie,       \* Trie: node id -> TrieNode, the root is trie[Root]
    inserted,   \* history: the arguments insert has been called with
    call,       \* the last operation called and its argument
    ret         \* what that operation returned

vars == <<trie, inserted, call, ret>>

(***************************************************************************)
(* Program constants.                                                      *)
(***************************************************************************)
SCREEN_WIDTH == 1000
level_height == 65
horizontal_spacing == 40
start_y == 100
draw_area_width == SCREEN_WIDTH
max_words == 8
left_margin == 20

(***************************************************************************)
(* Strings.                                                                *)
(***************************************************************************)
\* None: the value of node.word before a word ends at the node, and the node
\* get_suggestions returns when there is no match. No string holds a negative code.
None == <<-1>>

\* trie.root, and its char '*'
Root == <<>>
RootChar == <<42>>

\* str.lower() on one character: 'A'..'Z' to 'a'..'z', anything else unchanged
LowerChar(c) == IF c \in 65..90 THEN c + 32 ELSE c

\* str.lower()
lower(s) == [i \in 1..Len(s) |-> LowerChar(s[i])]

Range(s) == {s[i] : i \in 1..Len(s)}

\* Python's str < str: by code point, a proper prefix before its extensions
StrLess(s, t) ==
    \/ /\ Len(s) < Len(t)
       /\ \A i \in 1..Len(s) : s[i] = t[i]
    \/ \E k \in 1..Len(s) :
          /\ k <= Len(t)
          /\ \A i \in 1..(k - 1) : s[i] = t[i]
          /\ s[k] < t[k]

\* the sort key of get_suggestions, lambda x: (len(x), x), compared as tuples
KeyLess(s, t) ==
    \/ Len(s) < Len(t)
    \/ Len(s) = Len(t) /\ StrLess(s, t)

\* list.sort(key=...): a stable sort, here by insertion from the left
RECURSIVE InsertByKey(_, _)
InsertByKey(sorted, w) ==
    IF sorted = <<>> THEN <<w>>
    ELSE IF KeyLess(w, sorted[Len(sorted)])
         THEN Append(InsertByKey(SubSeq(sorted, 1, Len(sorted) - 1), w), sorted[Len(sorted)])
         ELSE Append(sorted, w)

RECURSIVE SortByKey(_)
SortByKey(ws) ==
    IF ws = <<>> THEN <<>>
    ELSE InsertByKey(SortByKey(SubSeq(ws, 1, Len(ws) - 1)), ws[Len(ws)])

\* sorted(node.children.keys()): the keys are single characters, distinct
RECURSIVE SortedKeys(_)
SortedKeys(keys) ==
    IF keys = <<>> THEN <<>>
    ELSE LET m == CHOOSE c \in Range(keys) : \A d \in Range(keys) : c <= d
         IN <<m>> \o SortedKeys(SelectSeq(keys, LAMBDA c : c # m))

(***************************************************************************)
(* TrieNode and Trie.                                                      *)
(***************************************************************************)
TrieNode(char) ==
    [char |-> char, children |-> <<>>, is_end_of_word |-> FALSE, word |-> None,
     x |-> 0, y |-> 0, is_path_node |-> FALSE, is_in_subtree |-> FALSE]

\* Trie.__init__
NewTrie == [n \in {Root} |-> TrieNode(RootChar)]

\* the walk of insert from character i of word on, at node
RECURSIVE InsertFrom(_, _, _, _)
InsertFrom(t, node, word, i) ==
    IF i > Len(word)
    THEN [t EXCEPT ![node].is_end_of_word = TRUE, ![node].word = word]
    ELSE LET char == word[i]
             child == Append(node, char)
             t1 == IF char \notin Range(t[node].children)
                   THEN [n \in DOMAIN t \cup {child} |->
                            IF n = child THEN TrieNode(<<char>>)
                            ELSE IF n = node
                                 THEN [t[n] EXCEPT !.children = Append(@, char)]
                                 ELSE t[n]]
                   ELSE t
         IN InsertFrom(t1, child, word, i + 1)

\* insert storing the word as it was given, not its lowercase form
insert_keeps_case(t, word) ==
    IF word = <<>> THEN t
    ELSE [InsertFrom(t, Root, lower(word), 1) EXCEPT ![lower(word)].word = word]

\* insert without the early return on the empty string
insert_no_empty_check(t, word) == InsertFrom(t, Root, lower(word), 1)

\* Trie.insert
insert(t, word) ==
    IF word = <<>> THEN t
    ELSE InsertFrom(t, Root, lower(word), 1)

\* _collect_all_words testing the cap with > in place of >=
RECURSIVE CollectChildren(_, _, _, _, _)
collect_all_words_cap_off_by_one(t, node, words) ==
    IF Len(words) > max_words THEN words
    ELSE LET words1 == IF t[node].is_end_of_word THEN Append(words, t[node].word)
                       ELSE words
         IN CollectChildren(t, node, SortedKeys(t[node].children), 1, words1)

\* Trie._collect_all_words: the list words after the call on node
RECURSIVE _collect_all_words(_, _, _)
_collect_all_words(t, node, words) ==
    IF Len(words) >= max_words THEN words
    ELSE LET words1 == IF t[node].is_end_of_word THEN Append(words, t[node].word)
                       ELSE words
         IN CollectChildren(t, node, SortedKeys(t[node].children), 1, words1)

\* the for loop of _collect_all_words over the sorted keys, from the i-th on
CollectChildren(t, node, keys, i, words) ==
    IF i > Len(keys) THEN words
    ELSE CollectChildren(t, node, keys, i + 1,
                         _collect_all_words(t, Append(node, keys[i]), words))

\* the walk of get_suggestions and highlight_path down the prefix, from its
\* i-th character on: the node reached, or None when a character has no edge
RECURSIVE WalkPrefix(_, _, _, _)
WalkPrefix(t, node, prefix, i) ==
    IF i > Len(prefix) THEN node
    ELSE IF prefix[i] \notin Range(t[node].children) THEN None
         ELSE WalkPrefix(t, Append(node, prefix[i]), prefix, i + 1)

\* get_suggestions walking the prefix as given, not its lowercase form
get_suggestions_no_lower(t, prefix) ==
    IF prefix = <<>> THEN <<<<>>, None>>
    ELSE LET node == WalkPrefix(t, Root, prefix, 1)
         IN IF node = None THEN <<<<>>, None>>
            ELSE <<SortByKey(_collect_all_words(t, node, <<>>)), node>>

\* Trie.get_suggestions: <<suggestions, node>>
get_suggestions(t, prefix) ==
    IF prefix = <<>> THEN <<<<>>, None>>
    ELSE LET node == WalkPrefix(t, Root, lower(prefix), 1)
         IN IF node = None THEN <<<<>>, None>>
            ELSE <<SortByKey(_collect_all_words(t, node, <<>>)), node>>

\* _reset_highlights that clears the node and does not descend
reset_highlights_no_descent(t, node) ==
    [t EXCEPT ![node].is_path_node = FALSE, ![node].is_in_subtree = FALSE]

\* _reset_highlights that also resets the node's coordinates
RECURSIVE ResetChildren(_, _, _)
reset_highlights_and_position(t, node) ==
    ResetChildren([t EXCEPT ![node].is_path_node = FALSE, ![node].is_in_subtree = FALSE,
                            ![node].x = 0, ![node].y = 0],
                  node, 1)

\* Trie._reset_highlights
RECURSIVE _reset_highlights(_, _)
_reset_highlights(t, node) ==
    ResetChildren([t EXCEPT ![node].is_path_node = FALSE, ![node].is_in_subtree = FALSE],
                  node, 1)

ResetChildren(t, node, i) ==
    IF i > Len(t[node].children) THEN t
    ELSE ResetChildren(_reset_highlights(t, Append(node, t[node].children[i])), node, i + 1)

\* Trie._mark_suggestion_subtree
RECURSIVE _mark_suggestion_subtree(_, _)
RECURSIVE MarkChildren(_, _, _)
_mark_suggestion_subtree(t, node) ==
    MarkChildren([t EXCEPT ![node].is_in_subtree = TRUE], node, 1)

MarkChildren(t, node, i) ==
    IF i > Len(t[node].children) THEN t
    ELSE MarkChildren(_mark_suggestion_subtree(t, Append(node, t[node].children[i])),
                      node, i + 1)

\* the loop of highlight_path over the prefix, from its i-th character on
RECURSIVE HighlightFrom(_, _, _, _)
HighlightFrom(t, node, prefix, i) ==
    IF i > Len(prefix) THEN _mark_suggestion_subtree(t, node)
    ELSE IF prefix[i] \notin Range(t[node].children) THEN t
         ELSE LET next == Append(node, prefix[i])
              IN HighlightFrom([t EXCEPT ![next].is_path_node = TRUE], next, prefix, i + 1)

\* highlight_path returning on the empty prefix before the reset
highlight_path_return_before_reset(t, prefix) ==
    IF prefix = <<>> THEN t
    ELSE HighlightFrom(_reset_highlights(t, Root), Root, lower(prefix), 1)

\* Trie.highlight_path
highlight_path(t, prefix) ==
    LET t0 == _reset_highlights(t, Root)
    IN IF prefix = <<>> THEN t0
       ELSE HighlightFrom(t0, Root, lower(prefix), 1)

\* Trie.get_all_nodes: the while loop, queue and nodes being the two lists
RECURSIVE AllNodesLoop(_, _, _)
AllNodesLoop(t, queue, nodes) ==
    IF queue = <<>> THEN nodes
    ELSE LET node == Head(queue)
         IN AllNodesLoop(t,
                Tail(queue) \o [i \in 1..Len(t[node].children) |->
                                   Append(node, t[node].children[i])],
                Append(nodes, node))

get_all_nodes(t) == AllNodesLoop(t, <<Root>>, <<>>)

(***************************************************************************)
(* TrieVisualizer.calculate_node_positions.                                *)
(***************************************************************************)
\* get_leaf_count: the value stored in leaf_counts[node]
RECURSIVE get_leaf_count(_, _)
RECURSIVE SumLeafCounts(_, _, _)
get_leaf_count(t, node) ==
    IF t[node].children = <<>> THEN 1
    ELSE SumLeafCounts(t, node, 1)

\* sum(get_leaf_count(child) for child in node.children.values()), from the i-th on
SumLeafCounts(t, node, i) ==
    IF i > Len(t[node].children) THEN 0
    ELSE get_leaf_count(t, Append(node, t[node].children[i])) + SumLeafCounts(t, node, i + 1)

\* start_x without the left margin
StartX_no_margin(t) ==
    (draw_area_width - get_leaf_count(t, Root) * horizontal_spacing) \div 2

\* start_x of calculate_node_positions
StartX(t) ==
    LET root_leaves == get_leaf_count(t, Root)
        total_tree_width == root_leaves * horizontal_spacing
        start_x == (draw_area_width - total_tree_width) \div 2
    IN IF start_x < left_margin THEN left_margin ELSE start_x

\* position_node laying the children out in the order of the dict, unsorted
RECURSIVE PositionChildren(_, _, _, _, _, _)
position_node_unsorted(t, node, x, y) ==
    LET node_width == get_leaf_count(t, node) * horizontal_spacing
        t1 == [t EXCEPT ![node].x = x + node_width \div 2, ![node].y = y]
    IN PositionChildren(t1, node, t[node].children, 1, x, y)

\* position_node; a child's char is the key it is stored under (insert), so
\* sorted(node.children.values(), key=lambda n: n.char) is the order of the sorted keys
RECURSIVE position_node(_, _, _, _)
position_node(t, node, x, y) ==
    LET node_width == get_leaf_count(t, node) * horizontal_spacing
        t1 == [t EXCEPT ![node].x = x + node_width \div 2, ![node].y = y]
    IN PositionChildren(t1, node, SortedKeys(t[node].children), 1, x, y)

\* the for loop of position_node over sorted_children, from the i-th on; keys
\* are the keys of node.children in the order of the loop, as many as
\* node.children holds
PositionChildren(t, node, keys, i, current_x, y) ==
    IF i > Len(t[node].children) THEN t
    ELSE LET child == Append(node, keys[i])
             child_pixel_width == get_leaf_count(t, child) * horizontal_spacing
         IN PositionChildren(position_node(t, child, current_x, y + level_height),
                             node, keys, i + 1, current_x + child_pixel_width, y)

calculate_node_positions(t) == position_node(t, Root, StartX(t), start_y)

(***************************************************************************)
(* Inputs.                                                                 *)
(***************************************************************************)
\* The words insert is called with: the first MaxWords of a list of words of
\* load_initial_words ("car", "cat", "cara") and words sharing their prefixes,
\* one of them in another letter case, and the empty string.
MaxWords == 5
WordList ==
    << <<99, 97, 114>>,          \* "car"
       <<99, 97, 116>>,          \* "cat"
       <<67, 97, 84>>,           \* "CaT"
       <<>>,                     \* ""
       <<99, 111>>,              \* "co"
       <<99, 97, 114, 97>>,      \* "cara"
       <<100, 97>> >>            \* "da"
Words == {WordList[i] : i \in 1..MaxWords}

\* The prefixes queried: the first MaxPrefixes of a list of matching, partly
\* matching and non-matching prefixes, in both letter cases, and the empty string.
MaxPrefixes == 5
PrefixList ==
    << <<>>,                     \* ""
       <<99>>,                   \* "c"
       <<67, 65>>,               \* "CA"
       <<99, 97, 120>>,          \* "cax"
       <<122>>,                  \* "z"
       <<99, 97, 116>>,          \* "cat"
       <<100>> >>                \* "d"
Prefixes == {PrefixList[i] : i \in 1..MaxPrefixes}

(***************************************************************************)
(* The state machine: the operations of Trie and TrieVisualizer, called in *)
(* any order.                                                              *)
(***************************************************************************)
NoResult == [words |-> <<>>, node |-> None, nodes |-> <<>>]

Init ==
    /\ trie = NewTrie
    /\ inserted = {}
    /\ call = [op |-> "init", arg |-> <<>>]
    /\ ret = NoResult

Insert(word) ==
    /\ trie' = insert(trie, word)
    /\ inserted' = inserted \cup {word}
    /\ call' = [op |-> "insert", arg |-> word]
    /\ ret' = NoResult

GetSuggestions(prefix) ==
    /\ ret' = [NoResult EXCEPT !.words = get_suggestions(trie, prefix)[1],
                               !.node = get_suggestions(trie, prefix)[2]]
    /\ call' = [op |-> "get_suggestions", arg |-> prefix]
    /\ UNCHANGED <<trie, inserted>>

HighlightPath(prefix) ==
    /\ trie' = highlight_path(trie, prefix)
    /\ call' = [op |-> "highlight_path", arg |-> prefix]
    /\ ret' = NoResult
    /\ UNCHANGED inserted

GetAllNodes ==
    /\ ret' = [NoResult EXCEPT !.nodes = get_all_nodes(trie)]
    /\ call' = [op |-> "get_all_nodes", arg |-> <<>>]
    /\ UNCHANGED <<trie, inserted>>

CalculateNodePositions ==
    /\ trie' = calculate_node_positions(trie)
    /\ call' = [op |-> "calculate_node_positions", arg |-> <<>>]
    /\ ret' = NoResult
    /\ UNCHANGED inserted

Next ==
    \/ \E word \in Words : Insert(word)
    \/ \E prefix \in Prefixes : GetSuggestions(prefix)
    \/ \E prefix \in Prefixes : HighlightPath(prefix)
    \/ GetAllNodes
    \/ CalculateNodePositions

Spec == Init /\ [][Next]_vars

(***************************************************************************)
(* What the properties are stated with: the tree as a set of key paths.    *)
(***************************************************************************)
Nodes == DOMAIN trie

\* p is an initial part of n
IsPrefix(p, n) == Len(p) <= Len(n) /\ \A i \in 1..Len(p) : p[i] = n[i]

Front(n) == SubSeq(n, 1, Len(n) - 1)

\* every character of lower(prefix) has a matching child edge
Matched(prefix) ==
    \A i \in 1..Len(prefix) :
        /\ SubSeq(lower(prefix), 1, i - 1) \in Nodes
        /\ lower(prefix)[i] \in Range(trie[SubSeq(lower(prefix), 1, i - 1)].children)

\* the distinct non-empty lowercased words inserted so far
Dictionary == {lower(w) : w \in inserted} \ {<<>>}

\* The tree is well formed: the nodes are the root and, for every node and every
\* key of its children, the node under that key; keys are not repeated.
WellFormed ==
    /\ Root \in Nodes
    /\ \A n \in Nodes \ {Root} :
          Front(n) \in Nodes /\ n[Len(n)] \in Range(trie[Front(n)].children)
    /\ \A n \in Nodes :
          /\ \A i \in 1..Len(trie[n].children) : Append(n, trie[n].children[i]) \in Nodes
          /\ \A i, j \in 1..Len(trie[n].children) :
                trie[n].children[i] = trie[n].children[j] => i = j

(***************************************************************************)
(* Marking: highlight_path.                                                *)
(***************************************************************************)
AllFlagsCleared ==
    \A n \in Nodes : ~trie[n].is_path_node /\ ~trie[n].is_in_subtree

\* C2: after highlight_path(p) with a non-empty p that does not fully match (some
\* character of lower(p) has no matching edge, also when an initial part of p
\* matches), every node, the root included, has both flags false.
C2_UnmatchedLeavesFlagsCleared ==
    (call.op = "highlight_path" /\ call.arg # <<>> /\ ~Matched(call.arg))
        => AllFlagsCleared

\* C3: after highlight_path(p) with a non-empty fully matched p, whatever was
\* queried before, is_path_node is true exactly on the nodes along the path of
\* lower(p) (root excluded, terminating node included), is_in_subtree exactly on
\* the terminating node and its descendants, so the terminating node is the only
\* node with both flags and the root is never a path node.
C3_MatchedMarksPathAndSubtree ==
    (call.op = "highlight_path" /\ call.arg # <<>> /\ Matched(call.arg))
        => /\ \A n \in Nodes :
                 /\ trie[n].is_path_node <=> (n # Root /\ IsPrefix(n, lower(call.arg)))
                 /\ trie[n].is_in_subtree <=> IsPrefix(lower(call.arg), n)
           /\ {n \in Nodes : trie[n].is_path_node /\ trie[n].is_in_subtree}
                 = {lower(call.arg)}
           /\ ~trie[Root].is_path_node

\* a two-character prefix in upper case was matched, below it lie further nodes,
\* and a node outside both the path and the subtree exists
C3_Witness ==
    /\ call.op = "highlight_path" /\ Matched(call.arg)
    /\ Len(call.arg) = 2 /\ lower(call.arg) # call.arg
    /\ \E n \in Nodes : Len(n) > 2 /\ trie[n].is_in_subtree
    /\ \E n \in Nodes \ {Root} : ~trie[n].is_path_node /\ ~trie[n].is_in_subtree

\* C6: a query with the empty string returns an empty word list and no
\* terminating node from get_suggestions, and after highlight_path('') every node
\* has both flags false, whatever the tree holds and whatever was queried before.
C6_EmptyPrefix ==
    /\ (call.op = "get_suggestions" /\ call.arg = <<>>)
          => (ret.words = <<>> /\ ret.node = None)
    /\ (call.op = "highlight_path" /\ call.arg = <<>>) => AllFlagsCleared

\* highlight_path('') was called on a tree that holds words
C6_Witness ==
    /\ call.op = "highlight_path" /\ call.arg = <<>>
    /\ \E n \in Nodes : trie[n].is_end_of_word

(***************************************************************************)
(* insert and get_all_nodes.                                               *)
(***************************************************************************)
\* C4: inserting a word that was inserted before, in any letter case, leaves the
\* tree as it was: the same nodes and edges, terminal flags and stored words.
C4_InsertIdempotent ==
    [][(call'.op = "insert" /\ lower(call'.arg) \in {lower(w) : w \in inserted})
          => trie' = trie]_vars

\* the word last inserted had been inserted before in another letter case
C4_Witness ==
    /\ call.op = "insert" /\ call.arg # <<>>
    /\ \E w \in inserted : w # call.arg /\ lower(w) = lower(call.arg)

\* C9: the nodes get_all_nodes returns with is_end_of_word true are as many as
\* the distinct non-empty lowercased words inserted so far; it returns every node
\* of the tree exactly once; the root is never terminal.
C9_TerminalCountIsDictionarySize ==
    /\ ~trie[Root].is_end_of_word
    /\ call.op = "get_all_nodes"
          => /\ Cardinality({i \in 1..Len(ret.nodes) : trie[ret.nodes[i]].is_end_of_word})
                   = Cardinality(Dictionary)
             /\ Range(ret.nodes) = Nodes
             /\ Len(ret.nodes) = Cardinality(Nodes)

\* get_all_nodes was called after the empty string, a word and the same word in
\* another letter case were inserted, and a second word
C9_Witness ==
    /\ call.op = "get_all_nodes"
    /\ <<>> \in inserted
    /\ \E v, w \in inserted : v # w /\ lower(v) = lower(w)
    /\ Cardinality(Dictionary) >= 2

(***************************************************************************)
(* Layout: calculate_node_positions.                                       *)
(***************************************************************************)
\* the nodes without children in the subtree of n
Leaves(n) == {m \in Nodes : IsPrefix(n, m) /\ trie[m].children = <<>>}
leafCount(n) == Cardinality(Leaves(n))

\* The span allotted to a node: the root's is the one its x is the midpoint of;
\* a child's starts where the spans of its siblings of smaller character end.
RECURSIVE SpanStart(_)
SpanStart(n) ==
    IF n = Root THEN trie[Root].x - (leafCount(Root) * 40) \div 2
    ELSE SpanStart(Front(n))
         + 40 * Cardinality({m \in Leaves(Front(n)) : m[Len(n)] < n[Len(n)]})
SpanEnd(n) == SpanStart(n) + leafCount(n) * 40

Siblings(n) == {m \in Nodes : Len(m) = Len(n) /\ m # Root /\ Front(m) = Front(n)}

\* C7: after calculate_node_positions every node's x is the midpoint of its span
\* [s, s + leafCount * 40) and lies in it; the spans of a node's children are
\* contiguous, do not overlap, go left to right in ascending character order and
\* cover the parent's span; siblings of ascending character have ascending x;
\* a node at depth d has y = 100 + 65 * d.
C7_LeafCountLayout ==
    call.op = "calculate_node_positions"
        => \A n \in Nodes :
              /\ trie[n].x = SpanStart(n) + (leafCount(n) * 40) \div 2
              /\ SpanStart(n) <= trie[n].x /\ trie[n].x < SpanEnd(n)
              /\ trie[n].y = 100 + 65 * Len(n)
              /\ \A m \in Siblings(n) :
                    m[Len(m)] < n[Len(n)]
                        => /\ trie[m].x < trie[n].x
                           /\ SpanEnd(m) <= SpanStart(n)
                           /\ (\A k \in Siblings(n) :
                                  ~(m[Len(m)] < k[Len(k)] /\ k[Len(k)] < n[Len(n)]))
                                 => SpanEnd(m) = SpanStart(n)
              /\ n # Root =>
                    /\ SpanStart(Front(n)) <= SpanStart(n)
                    /\ SpanEnd(n) <= SpanEnd(Front(n))
                    /\ (\A m \in Siblings(n) : n[Len(n)] <= m[Len(m)])
                          => SpanStart(n) = SpanStart(Front(n))
                    /\ (\A m \in Siblings(n) : m[Len(m)] <= n[Len(n)])
                          => SpanEnd(n) = SpanEnd(Front(n))

\* the layout ran on a tree of depth 3 in which a node has two children with
\* different leaf counts, the children having been inserted in descending order
C7_Witness ==
    /\ call.op = "calculate_node_positions"
    /\ \E n \in Nodes : Len(n) = 3
    /\ \E n \in Nodes : \E m \in Siblings(n) :
          /\ leafCount(m) < leafCount(n)
          /\ n[Len(n)] < m[Len(m)]
    /\ \E n \in Nodes :
          Len(trie[n].children) = 2 /\ trie[n].children[1] > trie[n].children[2]

(***************************************************************************)
(* Frames.                                                                 *)
(***************************************************************************)
ClearedFlags(t) ==
    [n \in DOMAIN t |-> [t[n] EXCEPT !.is_path_node = FALSE, !.is_in_subtree = FALSE]]

Coordinates(t) == [n \in DOMAIN t |-> <<t[n].x, t[n].y>>]

ZeroCoordinates(t) == [n \in DOMAIN t |-> [t[n] EXCEPT !.x = 0, !.y = 0]]

\* C10: get_suggestions changes no node field; highlight_path changes only
\* is_path_node and is_in_subtree; calculate_node_positions changes only x and y,
\* and the coordinates it gives are those it gives with every flag cleared.
C10_LayoutAndQueryDecoupled ==
    [][/\ call'.op = "get_suggestions" => trie' = trie
       /\ call'.op = "highlight_path" => ClearedFlags(trie') = ClearedFlags(trie)
       /\ call'.op = "calculate_node_positions"
             => /\ ZeroCoordinates(trie') = ZeroCoordinates(trie)
                /\ Coordinates(trie')
                      = Coordinates(calculate_node_positions(ClearedFlags(trie)))]_vars

\* the layout ran while nodes were marked by a query, and gave them coordinates
C10_Witness ==
    /\ call.op = "calculate_node_positions"
    /\ \E n \in Nodes : trie[n].is_path_node /\ trie[n].y > 100
    /\ \E n \in Nodes : trie[n].is_in_subtree /\ ~trie[n].is_path_node
    /\ \E n \in Nodes : trie[n].is_end_of_word

(***************************************************************************)
(* Bounded search: a dictionary in which more than max_words words lie     *)
(* below one prefix.                                                       *)
(***************************************************************************)
\* The words are the first MaxDeepWords of: "aaa", "aaaa", ... up to ten
\* characters (eight words that the traversal below "a" meets in this order),
\* "ab" (met after all of them, and shorter), "AB", "a", "aab".
MaxDeepWords == 10
DeepWordList ==
    [k \in 1..8 |-> [i \in 1..(k + 2) |-> 97]]
        \o << <<97, 98>>, <<65, 66>>, <<97>>, <<97, 97, 98>> >>
DeepWords == {DeepWordList[i] : i \in 1..MaxDeepWords}

MaxDeepPrefixes == 4
DeepPrefixList ==
    << <<97>>,                   \* "a"
       <<65>>,                   \* "A"
       <<97, 97>>,               \* "aa"
       <<98>>,                   \* "b"
       <<97, 98>> >>             \* "ab"
DeepPrefixes == {DeepPrefixList[i] : i \in 1..MaxDeepPrefixes}

NextDeep ==
    \/ \E word \in DeepWords : Insert(word)
    \/ \E prefix \in DeepPrefixes : GetSuggestions(prefix)

SpecDeep == Init /\ [][NextDeep]_vars

\* the terminal nodes below the node of lower(prefix)
TerminalsBelow(prefix) ==
    {n \in Nodes : IsPrefix(lower(prefix), n) /\ trie[n].is_end_of_word}

\* Pre-order with children in ascending character order meets n before m exactly
\* when n's key path is less than m's (a node before its descendants, a smaller
\* character's subtree before a greater one's). Kept are the first 8 terminals.
KeptNodes(prefix) ==
    {n \in TerminalsBelow(prefix) :
        Cardinality({m \in TerminalsBelow(prefix) : StrLess(m, n)}) < 8}

SortedByLengthThenLex(ws) ==
    \A i, j \in 1..Len(ws) : i < j => KeyLess(ws[i], ws[j])

\* C1: for a non-empty fully matched prefix p, get_suggestions(p) returns the
\* words of the first 8 terminal nodes that a pre-order walk (children in
\* ascending character order) of the subtree of lower(p) meets, sorted by length
\* and then lexicographically: never more than 8 words, and a 9th word of the
\* walk is left out even when it is shorter than every word kept.
C1_TruncatedThenSorted ==
    (call.op = "get_suggestions" /\ call.arg # <<>> /\ Matched(call.arg))
        => /\ Range(ret.words) = {trie[n].word : n \in KeptNodes(call.arg)}
           /\ Len(ret.words) = Cardinality(KeptNodes(call.arg))
           /\ SortedByLengthThenLex(ret.words)
           /\ Len(ret.words) <= 8
           /\ ret.node = lower(call.arg)

\* 8 words were returned and a terminal node below the prefix was left out whose
\* word is shorter than every word returned
C1_Witness ==
    /\ call.op = "get_suggestions" /\ call.arg # <<>> /\ Matched(call.arg)
    /\ Len(ret.words) = 8
    /\ \E n \in TerminalsBelow(call.arg) :
          /\ trie[n].word \notin Range(ret.words)
          /\ \A i \in 1..Len(ret.words) : Len(trie[n].word) < Len(ret.words[i])

\* the inserted words, lowercased, that start with lower(prefix)
Completions(prefix) == {w \in Dictionary : IsPrefix(lower(prefix), w)}

\* C5: for a non-empty prefix p every word get_suggestions(p) returns is the
\* lowercase form of an inserted word and starts with lower(p), and none is
\* returned twice; when at most 8 distinct inserted lowercased words start with
\* lower(p) the result is all of them, by length and then lexicographically; when
\* there is none the result is the empty list and no terminating node.
C5_SuggestionsAreCompletions ==
    (call.op = "get_suggestions" /\ call.arg # <<>>)
        => /\ Range(ret.words) \subseteq Completions(call.arg)
           /\ \A i, j \in 1..Len(ret.words) : ret.words[i] = ret.words[j] => i = j
           /\ Cardinality(Completions(call.arg)) <= 8
                 => /\ Range(ret.words) = Completions(call.arg)
                    /\ SortedByLengthThenLex(ret.words)
           /\ Completions(call.arg) = {} => (ret.words = <<>> /\ ret.node = None)

\* an upper-case prefix was queried and returned several, but not more than 8,
\* words, one of them inserted in upper case, the shortest not the first met
C5_Witness ==
    /\ call.op = "get_suggestions" /\ lower(call.arg) # call.arg
    /\ Len(ret.words) >= 3 /\ Cardinality(Completions(call.arg)) <= 8
    /\ \E w \in inserted : lower(w) # w /\ lower(w) \in Range(ret.words)
    /\ \E i \in 1..Len(ret.words) : StrLess(ret.words[i], ret.words[1])

(***************************************************************************)
(* Wide trees: the layout when the tree is as wide as the canvas.          *)
(***************************************************************************)
\* the tree after insert("a"), insert("b"), ... for the first k letters: the
\* root holds the k keys in this order, and under each key a terminal node
LetterTrie(k) ==
    [n \in {Root} \cup {<<96 + i>> : i \in 1..k} |->
        IF n = Root
        THEN [TrieNode(RootChar) EXCEPT !.children = [i \in 1..k |-> 96 + i]]
        ELSE [TrieNode(n) EXCEPT !.is_end_of_word = TRUE, !.word = n]]

MaxLetters == 24
WideWords == { <<121>>, <<122>> }    \* "y", "z"

InitWide ==
    \E k \in 0..MaxLetters :
        /\ trie = LetterTrie(k)
        /\ inserted = {<<96 + i>> : i \in 1..k}
        /\ call = [op |-> "init", arg |-> <<>>]
        /\ ret = NoResult

NextWide ==
    \/ \E word \in WideWords : Insert(word)
    \/ CalculateNodePositions

SpecWide == InitWide /\ [][NextWide]_vars

Max(a, b) == IF a >= b THEN a ELSE b

\* C8: when the total width W = leafCount(root) * 40 is at most the canvas
\* width 1000, after calculate_node_positions the root's x is
\* max(20, (1000 - W) div 2) + W div 2 and its y is 100; a tree of the root
\* alone has its root at the canvas center, 1000 div 2.
C8_RootCentered ==
    (call.op = "calculate_node_positions" /\ leafCount(Root) * 40 <= 1000)
        => /\ trie[Root].x = Max(20, (1000 - leafCount(Root) * 40) \div 2)
                                + (leafCount(Root) * 40) \div 2
           /\ trie[Root].y = 100
           /\ Nodes = {Root} => trie[Root].x = 1000 \div 2

\* the layout ran on a tree exactly as wide as the canvas, where the centered
\* start would lie left of the margin
C8_Witness ==
    /\ call.op = "calculate_node_positions"
    /\ leafCount(Root) * 40 = 1000
    /\ trie[Root].x = 520

====
